---- MODULE Spec2Model ----
(***************************************************************************)
(* Model of scripts/split_terminal.py: the coroutine main(connection)      *)
(* that splits the current iTerm2 pane into three, assigns preferred       *)
(* sizes, starts btop in the right pane and re-activates the main pane.    *)
(* The client coroutine and the terminal host are the two parties; every   *)
(* `await` is a request put in `pending` and a later answer by the host.   *)
(***************************************************************************)
EXTENDS Integers, Sequences, FiniteSets, TLC

\* ------------------------------------------------------------------ bounds
MaxW == 24
MaxH == 12

\* --------------------------------------------------------------- constants
PaneIds == {"p0", "p1", "p2"}
NoPane == "none"
NoSize == << >>
Notice == "No active iTerm2 window"
BtopText == <<"b", "t", "o", "p", "\n">>

VARIABLES
    pc,                   \* position of the coroutine in main / the script
    hasWindow,            \* host: app.current_terminal_window is not None
    grid,                 \* host: grid size <<W, H>> of each pane
    grid0,                \* host: grid size of the current pane at start
    panes,                \* host: set of panes of the current tab
    order,                \* host: panes of the tab in layout order
    splits,               \* host: the splits performed, in order
    focus,                \* host: the pane that holds keyboard focus
    applied,              \* host: sizes committed by the last layout update
    input,                \* host: texts received by each pane
    pending,              \* requests sent to the host and not yet answered
    trace,                \* every operation the script performed, in order
    stdout,               \* lines printed by the script
    window,               \* local: "unset", "None" or "window"
    session,              \* local: tab.current_session
    total_width,          \* local
    total_height,         \* local
    right_session,        \* local
    bottom_right_session, \* local
    preferred,            \* Session.preferred_size of each session object
    requested,            \* sizes carried by the layout-update request
    failed                \* the operation whose failure aborted the run

hostVars == <<hasWindow, grid, grid0, panes, order, splits, focus, applied, input>>
localVars == <<window, session, total_width, total_height, right_session,
               bottom_right_session, preferred>>
vars == <<pc, hostVars, pending, trace, stdout, localVars, requested, failed>>

\* ----------------------------------------------------------------- helpers
\* int(x * 0.55): 0.55 and 0.45 are doubles slightly above 55/100 and
\* 45/100 and 0.5 is exact, so for every grid dimension a terminal can have
\* the truncated double product equals the truncated exact product.
IntOfPercent(x, pct) == (x * pct) \div 100

Size(w, h) == <<w, h>>

Op(name, target, arg) == [op |-> name, target |-> target, arg |-> arg]

MainSize(w, h) == Size(IntOfPercent(w, 55), h)

RightSize(w, h) == Size(IntOfPercent(w, 45), IntOfPercent(h, 55))

BottomRightSize(w, h) == Size(IntOfPercent(w, 50), IntOfPercent(h, 45))

\* position of pane p in the layout order (0 when absent)
IndexOf(seq, p) ==
    IF \E i \in 1..Len(seq) : seq[i] = p
    THEN CHOOSE i \in 1..Len(seq) : seq[i] = p
    ELSE 0

\* host: the layout order after a new pane is placed before/after target
InsertPane(seq, target, new, before) ==
    LET i == IndexOf(seq, target)
        k == IF before THEN i - 1 ELSE i
    IN  SubSeq(seq, 1, k) \o <<new>> \o SubSeq(seq, k + 1, Len(seq))

\* -------------------------------------------------------------------- Init
Init ==
    /\ pc = "boot"
    /\ hasWindow \in BOOLEAN
    /\ \E w \in 1..MaxW, h \in 1..MaxH, p \in PaneIds :
          /\ grid0 = IF hasWindow THEN <<w, h>> ELSE <<0, 0>>
          /\ grid = [q \in PaneIds |-> IF hasWindow /\ q = p THEN <<w, h>> ELSE <<0, 0>>]
          /\ panes = IF hasWindow THEN {p} ELSE {}
          /\ order = IF hasWindow THEN <<p>> ELSE << >>
          /\ focus = IF hasWindow THEN p ELSE NoPane
    /\ splits = << >>
    /\ applied = [p \in PaneIds |-> NoSize]
    /\ input = [p \in PaneIds |-> << >>]
    /\ pending = {}
    /\ trace = << >>
    /\ stdout = << >>
    /\ window = "unset"
    /\ session = NoPane
    /\ total_width = 0
    /\ total_height = 0
    /\ right_session = NoPane
    /\ bottom_right_session = NoPane
    /\ preferred = [p \in PaneIds |-> NoSize]
    /\ requested = [p \in PaneIds |-> NoSize]
    /\ failed = "none"

\* ----------------------------------------------------------------- actions
\* issue a request to the host and suspend until it is answered
Send(req, next) ==
    /\ pending' = pending \cup {req}
    /\ trace' = Append(trace, req)
    /\ pc' = next

\* lines 34-40: set up the event loop and start main on a connection
RunUntilComplete ==
    /\ pc = "boot"
    /\ pc' = "get_app"
    /\ UNCHANGED <<hostVars, pending, trace, stdout, localVars, requested, failed>>

\* line 5: app = await iterm2.async_get_app(connection)  (request)
GetAppRequest ==
    /\ pc = "get_app"
    /\ Send(Op("get_app", "app", << >>), "await_get_app")
    /\ UNCHANGED <<hostVars, stdout, localVars, requested, failed>>

\* lines 5-6: the host answers; window = app.current_terminal_window
GetAppReply ==
    /\ pc = "await_get_app"
    /\ \E r \in pending :
          /\ r.op = "get_app"
          /\ pending' = pending \ {r}
    /\ window' = IF hasWindow THEN "window" ELSE "None"
    /\ pc' = "check_window"
    /\ UNCHANGED <<hostVars, trace, stdout, session, total_width, total_height,
                   right_session, bottom_right_session, preferred, requested, failed>>

\* lines 8-14: window found; tab, session and the grid size are read
ReadGridSize ==
    /\ pc = "check_window"
    /\ window # "None"
    /\ session' = focus
    /\ total_width' = grid[focus][1]
    /\ total_height' = grid[focus][2]
    /\ trace' = Append(trace, Op("grid_size", focus, grid[focus]))
    /\ pc' = "split_main"
    /\ UNCHANGED <<hostVars, pending, stdout, window, right_session,
                   bottom_right_session, preferred, requested, failed>>

\* variant of PrintNotice: the else branch does not end the run
PrintNoticeFallThrough ==
    /\ pc = "check_window"
    /\ window = "None"
    /\ stdout' = Append(stdout, Notice)
    /\ pc' = "split_main"
    /\ UNCHANGED <<hostVars, pending, trace, localVars, requested, failed>>

\* lines 8, 31-32: no window; print the notice and return
PrintNotice ==
    /\ pc = "check_window"
    /\ window = "None"
    /\ stdout' = Append(stdout, Notice)
    /\ pc' = "noticed"
    /\ UNCHANGED <<hostVars, pending, trace, localVars, requested, failed>>

\* host: the old pane keeps one half of its cells and the new pane gets
\* the other half, along the width (vertical) or the height (horizontal)
KeptHalf(size, vertical) ==
    IF vertical THEN <<size[1] - size[1] \div 2, size[2]>>
                ELSE <<size[1], size[2] - size[2] \div 2>>

NewHalf(size, vertical) ==
    IF vertical THEN <<size[1] \div 2, size[2]>>
                ELSE <<size[1], size[2] \div 2>>

\* host: a split of `target` creates a fresh pane next to it
HostSplit(r, new) ==
    /\ panes' = panes \cup {new}
    /\ grid' = [grid EXCEPT ![r.target] = KeptHalf(grid[r.target], r.arg[1]),
                            ![new] = NewHalf(grid[r.target], r.arg[1])]
    /\ order' = InsertPane(order, r.target, new, r.arg[2])
    /\ splits' = Append(splits, [target |-> r.target, vertical |-> r.arg[1],
                                 before |-> r.arg[2], new |-> new])
    /\ focus' \in {focus, new}
    /\ UNCHANGED <<hasWindow, grid0, applied, input>>

\* line 16: session.async_split_pane(vertical=True, before=False)  (request)
SplitMainRequest ==
    /\ pc = "split_main"
    /\ Send(Op("split_pane", session, <<TRUE, FALSE>>), "await_split_main")
    /\ UNCHANGED <<hostVars, stdout, localVars, requested, failed>>

\* line 16: right_session = the pane the host created
SplitMainReply ==
    /\ pc = "await_split_main"
    /\ \E r \in pending, new \in PaneIds \ panes :
          /\ r.op = "split_pane"
          /\ pending' = pending \ {r}
          /\ HostSplit(r, new)
          /\ right_session' = new
    /\ pc' = "split_right"
    /\ UNCHANGED <<trace, stdout, window, session, total_width, total_height,
                   bottom_right_session, preferred, requested, failed>>

\* variant of SplitRightRequest: the second split is applied to the main pane
SplitRightRequestOnMain ==
    /\ pc = "split_right"
    /\ Send(Op("split_pane", session, <<FALSE, FALSE>>), "await_split_right")
    /\ UNCHANGED <<hostVars, stdout, localVars, requested, failed>>

\* line 18: right_session.async_split_pane(vertical=False, before=False)
SplitRightRequest ==
    /\ pc = "split_right"
    /\ Send(Op("split_pane", right_session, <<FALSE, FALSE>>), "await_split_right")
    /\ UNCHANGED <<hostVars, stdout, localVars, requested, failed>>

\* line 18: bottom_right_session = the pane the host created
SplitRightReply ==
    /\ pc = "await_split_right"
    /\ \E r \in pending, new \in PaneIds \ panes :
          /\ r.op = "split_pane"
          /\ pending' = pending \ {r}
          /\ HostSplit(r, new)
          /\ bottom_right_session' = new
    /\ pc' = "set_preferred"
    /\ UNCHANGED <<trace, stdout, window, session, total_width, total_height,
                   right_session, preferred, requested, failed>>

\* lines 20-24: the three preferred_size assignments
SetPreferredSizes ==
    /\ pc = "set_preferred"
    /\ preferred' = [preferred EXCEPT
          ![session] = MainSize(total_width, total_height),
          ![right_session] = RightSize(total_width, total_height),
          ![bottom_right_session] = BottomRightSize(total_width, total_height)]
    /\ trace' = trace \o
          << Op("preferred_size", session, MainSize(total_width, total_height)),
             Op("preferred_size", right_session, RightSize(total_width, total_height)),
             Op("preferred_size", bottom_right_session,
                BottomRightSize(total_width, total_height)) >>
    /\ pc' = "update_layout"
    /\ UNCHANGED <<hostVars, pending, stdout, window, session, total_width,
                   total_height, right_session, bottom_right_session, requested, failed>>

\* line 26: await tab.async_update_layout()  (request carrying the sizes)
UpdateLayoutRequest ==
    /\ pc = "update_layout"
    /\ Send(Op("update_layout", "tab", << >>), "await_update_layout")
    /\ requested' = preferred
    /\ UNCHANGED <<hostVars, stdout, localVars, failed>>

\* variant of UpdateLayoutReply: the answer never resumes the coroutine
UpdateLayoutReplyStuck ==
    /\ pc = "await_update_layout"
    /\ \E r \in pending :
          /\ r.op = "update_layout"
          /\ pending' = pending \ {r}
    /\ applied' = requested
    /\ pc' = "await_update_layout"
    /\ UNCHANGED <<hasWindow, grid, grid0, panes, order, splits, focus, input,
                   trace, stdout, localVars, requested, failed>>

\* line 26: the host commits the requested sizes
UpdateLayoutReply ==
    /\ pc = "await_update_layout"
    /\ \E r \in pending :
          /\ r.op = "update_layout"
          /\ pending' = pending \ {r}
    /\ applied' = requested
    /\ pc' = "send_text"
    /\ UNCHANGED <<hasWindow, grid, grid0, panes, order, splits, focus, input,
                   trace, stdout, localVars, requested, failed>>

\* variant of SendTextRequest: the command is sent twice
SendTextRequestTwice ==
    /\ pc = "send_text"
    /\ pending' = pending \cup {Op("send_text", right_session, BtopText)}
    /\ trace' = trace \o << Op("send_text", right_session, BtopText),
                            Op("send_text", right_session, BtopText) >>
    /\ pc' = "await_send_text"
    /\ UNCHANGED <<hostVars, stdout, localVars, requested, failed>>

\* variant of SendTextRequest: the call is not awaited
SendTextRequestNoAwait ==
    /\ pc = "send_text"
    /\ Send(Op("send_text", right_session, BtopText), "activate")
    /\ UNCHANGED <<hostVars, stdout, localVars, requested, failed>>

\* variant of SendTextRequest: the command goes to the bottom right pane
SendTextRequestBottom ==
    /\ pc = "send_text"
    /\ Send(Op("send_text", bottom_right_session, BtopText), "await_send_text")
    /\ UNCHANGED <<hostVars, stdout, localVars, requested, failed>>

\* line 28: await right_session.async_send_text('btop\n')  (request)
SendTextRequest ==
    /\ pc = "send_text"
    /\ Send(Op("send_text", right_session, BtopText), "await_send_text")
    /\ UNCHANGED <<hostVars, stdout, localVars, requested, failed>>

\* line 28: the host delivers the text to the target pane
SendTextReply ==
    /\ pc = "await_send_text"
    /\ \E r \in pending :
          /\ r.op = "send_text"
          /\ pending' = pending \ {r}
          /\ input' = [input EXCEPT ![r.target] = Append(@, r.arg)]
    /\ pc' = "activate"
    /\ UNCHANGED <<hasWindow, grid, grid0, panes, order, splits, focus, applied,
                   trace, stdout, localVars, requested, failed>>

\* variant of ActivateRequest: the right pane is activated
ActivateRequestRight ==
    /\ pc = "activate"
    /\ Send(Op("activate", right_session, << >>), "await_activate")
    /\ UNCHANGED <<hostVars, stdout, localVars, requested, failed>>

\* line 30: await session.async_activate()  (request)
ActivateRequest ==
    /\ pc = "activate"
    /\ Send(Op("activate", session, << >>), "await_activate")
    /\ UNCHANGED <<hostVars, stdout, localVars, requested, failed>>

\* line 30: the host gives focus to the target pane; main returns
ActivateReply ==
    /\ pc = "await_activate"
    /\ \E r \in pending :
          /\ r.op = "activate"
          /\ pending' = pending \ {r}
          /\ focus' = r.target
    /\ pc' = "done"
    /\ UNCHANGED <<hasWindow, grid, grid0, panes, order, splits, applied, input,
                   trace, stdout, localVars, requested, failed>>

\* variant of HostFailure: the panes created so far are closed on failure
HostFailureRollback ==
    /\ \E r \in pending :
          /\ pending' = pending \ {r}
          /\ failed' = r.op
    /\ pc' = "aborted"
    /\ panes' = panes \ {splits[i].new : i \in 1..Len(splits)}
    /\ UNCHANGED <<hasWindow, grid, grid0, order, splits, focus, applied, input,
                   trace, stdout, localVars, requested>>

\* lines 5, 16, 18, 26, 28, 30: the host answers a request with a failure;
\* no except clause exists, so the exception leaves main and the script
HostFailure ==
    /\ \E r \in pending :
          /\ pending' = pending \ {r}
          /\ failed' = r.op
    /\ pc' = "aborted"
    /\ UNCHANGED <<hostVars, trace, stdout, localVars, requested>>

Next ==
    \/ RunUntilComplete
    \/ GetAppRequest
    \/ GetAppReply
    \/ ReadGridSize
    \/ PrintNotice
    \/ SplitMainRequest
    \/ SplitMainReply
    \/ SplitRightRequest
    \/ SplitRightReply
    \/ SetPreferredSizes
    \/ UpdateLayoutRequest
    \/ UpdateLayoutReply
    \/ SendTextRequest
    \/ SendTextReply
    \/ ActivateRequest
    \/ ActivateReply
    \/ HostFailure

Spec == Init /\ [][Next]_vars

\* the coroutine always runs its next statement and the host answers every
\* request it receives (with success or failure)
FairSpec == Spec /\ WF_vars(Next)

\* ------------------------------------------------------------ observations
CountOp(name) == Cardinality({i \in 1..Len(trace) : trace[i].op = name})

MutatingOps == {"split_pane", "preferred_size", "update_layout", "send_text", "activate"}

Terminal == pc \in {"done", "noticed", "aborted"}

\* the pane of the tab that no split created
OriginalPane == CHOOSE p \in panes : \A i \in 1..Len(splits) : splits[i].new # p

\* no operation appears twice in the trace
NoRepeat ==
    \A i, j \in 1..Len(trace) :
        (trace[i].op = trace[j].op /\ trace[i].target = trace[j].target) => i = j

IsPrefix(s, t) == Len(s) <= Len(t) /\ \A i \in 1..Len(s) : s[i] = t[i]

OpNames == [i \in 1..Len(trace) |-> trace[i].op]

ExpectedOrder ==
    <<"get_app", "grid_size", "split_pane", "split_pane", "preferred_size",
      "preferred_size", "preferred_size", "update_layout", "send_text", "activate">>

\* ------------------------------------------------------------------ claims

\* C1: when the host reports no current terminal window, the notice is
\* printed exactly once, the only host operation ever issued is the app
\* lookup (no split, no preferred size, no layout update, no text, no
\* activate), and no step of the run changes the host's panes or any other
\* host state.
C1_NoWindow ==
    /\ [](window = "None" =>
            /\ \A i \in 1..Len(trace) : trace[i].op \notin MutatingOps
            /\ preferred = [p \in PaneIds |-> NoSize]
            /\ Len(stdout) <= 1
            /\ pc \in {"check_window", "noticed"}
            /\ (pc = "noticed" => stdout = <<Notice>>))
    /\ [][~hasWindow => UNCHANGED hostVars]_vars

C1_Witness == pc = "noticed" /\ window = "None" /\ Len(stdout) = 1

\* C2: the sizes carried by the layout update are main = (floor(.55W), H),
\* secondary = (floor(.45W), floor(.55H)), tertiary = (floor(.45W),
\* floor(.45H)), with (W, H) the grid size of the pane before any split.
C2_RequestedSizes ==
    CountOp("update_layout") = 1 =>
        /\ requested[session] = <<(55 * grid0[1]) \div 100, grid0[2]>>
        /\ requested[right_session] =
              <<(45 * grid0[1]) \div 100, (55 * grid0[2]) \div 100>>
        /\ requested[bottom_right_session] =
              <<(45 * grid0[1]) \div 100, (45 * grid0[2]) \div 100>>

\* C3: a run with a window and no host failure issues exactly two splits,
\* one layout update, one text send and one activate, and never issues an
\* operation a second time.
C3_OperationCounts ==
    /\ CountOp("split_pane") <= 2
    /\ CountOp("update_layout") <= 1
    /\ CountOp("send_text") <= 1
    /\ CountOp("activate") <= 1
    /\ NoRepeat
    /\ pc = "done" =>
          /\ CountOp("split_pane") = 2
          /\ CountOp("update_layout") = 1
          /\ CountOp("send_text") = 1
          /\ CountOp("activate") = 1

C3_Witness == pc = "done" /\ hasWindow /\ CountOp("split_pane") = 2

\* C4: the operations occur in the fixed order grid size, vertical split of
\* main, horizontal split of the right pane, three preferred sizes, layout
\* update, text send, activate; a request is issued only when no other
\* request is outstanding, so at most one is outstanding at any time.
C4_FixedOrder ==
    /\ [](IsPrefix(OpNames, ExpectedOrder))
    /\ [](Cardinality(pending) <= 1)
    /\ [](pending # {} => \E r \in pending : r = trace[Len(trace)])
    /\ [](\A i \in 1..Len(trace) :
             /\ i = 3 => trace[i].target = session /\ trace[i].arg = <<TRUE, FALSE>>
             /\ i = 4 => trace[i].target = right_session /\ trace[i].arg = <<FALSE, FALSE>>)
    /\ [][pending' \ pending # {} => pending = {}]_vars

C4_Witness == pc = "await_activate" /\ Cardinality(pending) = 1 /\ Len(trace) = 10

\* C5: after a successful run the focus is on the original pane: the one
\* activate call targets the session that was current at start, not a pane
\* created by a split, and it is the last operation of the run.
C5_FocusOnMain ==
    pc = "done" =>
        /\ focus = OriginalPane
        /\ session = OriginalPane
        /\ session \notin {right_session, bottom_right_session}
        /\ trace[Len(trace)].op = "activate"
        /\ trace[Len(trace)].target = OriginalPane
        /\ CountOp("activate") = 1

C5_Witness == pc = "done" /\ focus = session /\ Len(splits) = 2

\* C6: the monitor command is sent exactly once, its text is "btop" followed
\* by exactly one newline, its target is the pane created by the first
\* (vertical) split, and no other pane ever receives text.
C6_MonitorCommand ==
    /\ CountOp("send_text") <= 1
    /\ \A i \in 1..Len(trace) :
          trace[i].op = "send_text" =>
              /\ trace[i].arg = <<"b", "t", "o", "p">> \o <<"\n">>
              /\ Len(splits) >= 1
              /\ trace[i].target = splits[1].new
              /\ splits[1].vertical
    /\ \A p \in PaneIds :
          input[p] # << >> =>
              /\ p = splits[1].new
              /\ input[p] = << <<"b", "t", "o", "p", "\n">> >>
    /\ pc = "done" =>
          /\ CountOp("send_text") = 1
          /\ input[splits[1].new] = << <<"b", "t", "o", "p", "\n">> >>

C6_Witness == pc = "done" /\ input[right_session] = <<BtopText>>

\* C7: starting from one pane the tab always has 1, 2 or 3 panes and the
\* count never decreases; a successful run ends with exactly three: the
\* first split is vertical and places the new pane after the main pane, the
\* second is horizontal, applied to that new pane, and places its pane after.
C7_ThreePanes ==
    /\ [](hasWindow => Cardinality(panes) \in 1..3)
    /\ [][Cardinality(panes') >= Cardinality(panes)]_vars
    /\ [](pc = "done" =>
            /\ Cardinality(panes) = 3
            /\ Len(splits) = 2
            /\ splits[1].target = OriginalPane
            /\ splits[1].vertical /\ ~splits[1].before
            /\ splits[2].target = splits[1].new
            /\ ~splits[2].vertical /\ ~splits[2].before
            /\ order = <<OriginalPane, splits[1].new, splits[2].new>>)

C7_Witness == pc = "done" /\ Cardinality(panes) = 3 /\ Len(order) = 3

\* C8: when a host operation fails after a split has succeeded the run
\* stops there: the failed operation is the last one issued and was issued
\* once, nothing is issued afterwards, and every effect applied before the
\* failure (panes, sizes, text) is kept: no pane is closed, nothing is reset.
C8_AbortNoRollback ==
    /\ []((pc = "aborted" /\ Len(splits) >= 1) =>
            /\ trace[Len(trace)].op = failed
            /\ NoRepeat
            /\ pending = {}
            /\ Cardinality(panes) = Len(splits) + 1
            /\ \A i \in 1..Len(splits) : splits[i].new \in panes
            /\ Len(splits) = (IF CountOp("split_pane") = 2 /\ failed = "split_pane"
                              THEN 1 ELSE 2)
            /\ (failed \in {"update_layout", "send_text", "activate"} =>
                   /\ preferred[session] = MainSize(total_width, total_height)
                   /\ preferred[right_session] # NoSize
                   /\ preferred[bottom_right_session] # NoSize)
            /\ (failed \in {"send_text", "activate"} => applied = preferred)
            /\ (failed = "activate" => input[right_session] = <<BtopText>>))
    /\ [][pc # "aborted"]_vars
    /\ [][/\ panes \subseteq panes'
          /\ IsPrefix(splits, splits')
          /\ IsPrefix(trace, trace')
          /\ \A p \in PaneIds : applied[p] # NoSize => applied'[p] = applied[p]]_vars

C8_Witness ==
    pc = "aborted" /\ failed = "send_text" /\ Cardinality(panes) = 3
        /\ applied[session] # NoSize

\* C9: provided the host answers every request, every run eventually ends
\* in one of three states: completed, notice printed, or aborted on a host
\* failure; a state that is not one of these always has a next step.
C9_Terminates ==
    /\ <>Terminal
    /\ [](~Terminal => ENABLED Next)
    /\ [](Terminal => pending = {} /\ ~ENABLED Next)
    /\ [](pc = "noticed" => ~hasWindow /\ failed = "none")
    /\ [](pc = "done" => hasWindow /\ failed = "none" /\ Len(trace) = 10)
    /\ [](pc = "aborted" <=> failed # "none")

C9_Witness == pc = "aborted" /\ failed = "get_app" /\ pending = {}

\* C10: the requested sizes tile the pre-split pane (W, H) within one cell:
\* main.width + secondary.width and main.width + tertiary.width are W-1 or
\* W, secondary.height + tertiary.height is H-1 or H, no requested width
\* exceeds W and no requested height exceeds H.
C10_SizesTile ==
    CountOp("preferred_size") = 3 =>
        LET m == preferred[session]
            s == preferred[right_session]
            t == preferred[bottom_right_session]
            W == grid0[1]
            H == grid0[2]
        IN  /\ m[1] + s[1] \in {W - 1, W}
            /\ m[1] + t[1] \in {W - 1, W}
            /\ s[2] + t[2] \in {H - 1, H}
            /\ m[1] <= W /\ s[1] <= W /\ t[1] <= W
            /\ m[2] <= H /\ s[2] <= H /\ t[2] <= H

====
